---- MODULE Spec2Model ----
(***************************************************************************)
(* Model of the otogedb conversion pipelines: convert.py (domestic         *)
(* catalog) and intl_convert.py (international catalog).                   *)
(*                                                                         *)
(* Representation of Python values.                                        *)
(*  - A Python string that the code takes apart character by character     *)
(*    (dates, mapping keys, level labels, ids, image urls, note counts,    *)
(*    version labels, which share the "from" field with raw dates) is a    *)
(*    sequence of one-character strings: "13+" is <<"1","3","+">>.         *)
(*  - A Python string that is only compared or copied (title, type,        *)
(*    comment, artist, genre, dictionary keys) is a TLA+ string.           *)
(*  - A dict is a function whose DOMAIN is the set of keys present.        *)
(*  - A float is an exact fixed-point integer: the value times Scale.      *)
(*  - None is the record NoneValue; an uncaught exception E is Raise(E).   *)
(***************************************************************************)
EXTENDS Integers, Sequences, FiniteSets, TLC

VARIABLES
    pc,                 \* position in main(), or in the function under test
    call,               \* the arguments of the function under test
    ret,                \* its return value
    data,               \* the raw feed (requests.get(...).json())
    from_mapping,       \* load_mapping(...)
    origin_music_data,  \* music_data/origin_music_data.json
    diving_fish_data,   \* the community dataset
    output_data,        \* the catalog being built
    before_pass,        \* output_data as it was when the last pass started
    first_output,       \* the catalog written by the previous run, if any
    MID_COUNTER,        \* intl_convert.py's global chart id counter
    intl_file           \* intl_music_data.json, as written by intl_music_data

vars == <<pc, call, ret, data, from_mapping, origin_music_data,
          diving_fish_data, output_data, before_pass, first_output,
          MID_COUNTER, intl_file>>

(***************************************************************************)
(* Bounds.                                                                 *)
(***************************************************************************)
MaxBoundaries == 3
MaxLabelLen == 3

(***************************************************************************)
(* Python primitives.                                                      *)
(***************************************************************************)
NoneValue == [tag |-> "None"]
Raise(e) == [raise |-> e]
Float(v) == [tag |-> "float", val |-> v]
\* x is a raised exception; x may be a record or a string of characters,
\* whose domains are compared as text (1..n and {"raise"} have no common
\* type).
IsRaise(x) == ToString(DOMAIN x) = ToString({"raise"})

DigitChars == <<"0", "1", "2", "3", "4", "5", "6", "7", "8", "9">>
IsDigit(c) == \E i \in 1..10 : DigitChars[i] = c
DigitVal(c) == (CHOOSE i \in 1..10 : DigitChars[i] = c) - 1

RECURSIVE Pow10(_)
Pow10(n) == IF n = 0 THEN 1 ELSE 10 * Pow10(n - 1)

\* int(s) succeeds on the strings of the model's alphabet exactly when s is
\* a non-empty run of digits.
IsIntStr(s) == Len(s) > 0 /\ \A i \in 1..Len(s) : IsDigit(s[i])

RECURSIVE IntOf(_)
IntOf(s) ==
    IF Len(s) = 0 THEN 0
    ELSE 10 * IntOf(SubSeq(s, 1, Len(s) - 1)) + DigitVal(s[Len(s)])

\* str(n) for n >= 0: the decimal digits without leading zeros.
RECURSIVE StrOf(_)
StrOf(n) ==
    IF n < 10 THEN <<DigitChars[n + 1]>>
    ELSE Append(StrOf(n \div 10), DigitChars[(n % 10) + 1])

\* Fixed-point scale of the model's floats: one decimal place more than any
\* label of at most MaxLabelLen characters can hold.
Scale == Pow10(MaxLabelLen)

Contains(s, c) == \E i \in 1..Len(s) : s[i] = c
Count(s, c) == Cardinality({i \in 1..Len(s) : s[i] = c})

\* float(s) for s made of digits and "." only: a ValueError unless there is
\* at most one "." and at least one digit.
IsFloatStr(s) == Count(s, ".") <= 1 /\ \E i \in 1..Len(s) : IsDigit(s[i])

FloatOf(s) ==
    LET dot == IF Contains(s, ".")
               THEN CHOOSE i \in 1..Len(s) : s[i] = "."
               ELSE Len(s) + 1
        whole == SubSeq(s, 1, dot - 1)
        frac == SubSeq(s, dot + 1, Len(s))
    IN  IntOf(whole) * Scale + IntOf(frac) * Pow10(MaxLabelLen - Len(frac))

(***************************************************************************)
(* map_date_to_version (identical in both files).                          *)
(***************************************************************************)
\* sorted(int(k) for k in mapping.keys()): a sorted list, one element per key
\* (two keys with the same integer value give the value twice).
RECURSIVE SortedBoundaries(_)
SortedBoundaries(keys) ==
    IF keys = {} THEN <<>>
    ELSE LET k == CHOOSE k \in keys : \A j \in keys : IntOf(k) <= IntOf(j)
         IN  <<IntOf(k)>> \o SortedBoundaries(keys \ {k})

\* mapping[str(b)]: a KeyError when the canonical spelling of b is no key.
Lookup(mapping, b) ==
    IF StrOf(b) \in DOMAIN mapping THEN mapping[StrOf(b)] ELSE Raise("KeyError")

\* The loop of lines 42-45: the first i in 1..len-1 (0-based) with
\* date_int < boundaries[i] returns the label of boundaries[i-1].
FloorLoopLe(date_int, boundaries, mapping) ==
    LET n == Len(boundaries)
        hits == {i \in 2..n : date_int <= boundaries[i]}
    IN  IF hits = {} THEN Lookup(mapping, boundaries[n])
        ELSE LET i == CHOOSE i \in hits : \A j \in hits : i <= j
             IN  Lookup(mapping, boundaries[i - 1])

FloorLoopNext(date_int, boundaries, mapping) ==
    LET n == Len(boundaries)
        hits == {i \in 2..n : date_int < boundaries[i]}
    IN  IF hits = {} THEN Lookup(mapping, boundaries[n])
        ELSE LET i == CHOOSE i \in hits : \A j \in hits : i <= j
             IN  Lookup(mapping, boundaries[i])

FloorLoop(date_int, boundaries, mapping) ==
    LET n == Len(boundaries)
        hits == {i \in 2..n : date_int < boundaries[i]}
    IN  IF hits = {} THEN Lookup(mapping, boundaries[n])
        ELSE LET i == CHOOSE i \in hits : \A j \in hits : i <= j
             IN  Lookup(mapping, boundaries[i - 1])

map_date_to_version(raw_date_str, mapping) ==
    IF ~IsIntStr(raw_date_str) THEN raw_date_str
    ELSE IF \E k \in DOMAIN mapping : ~IsIntStr(k) THEN Raise("ValueError")
    ELSE LET date_int == IntOf(raw_date_str)
             boundaries == SortedBoundaries(DOMAIN mapping)
         IN  IF boundaries = <<>> THEN raw_date_str
             ELSE IF date_int < boundaries[1]
                  THEN Lookup(mapping, boundaries[1])
             ELSE FloorLoop(date_int, boundaries, mapping)

(***************************************************************************)
(* parse_ds_value: convert.py adds 0.5 for "+", intl_convert.py adds 0.6.  *)
(***************************************************************************)
IsNumChar(c) == IsDigit(c) \/ c = "."

\* re.sub(r"[^\d.]", "", ds_str)
RECURSIVE StripNonNumeric(_)
StripNonNumeric(s) ==
    IF Len(s) = 0 THEN <<>>
    ELSE (IF IsNumChar(Head(s)) THEN <<Head(s)>> ELSE <<>>)
         \o StripNonNumeric(Tail(s))

PlusIncrement == (5 * Scale) \div 10
IntlPlusIncrement == (6 * Scale) \div 10

parse_ds_with(ds_str, increment) ==
    IF Len(ds_str) = 0 THEN NoneValue
    ELSE LET num_str == StripNonNumeric(ds_str)
         IN  IF Len(num_str) = 0 THEN NoneValue
             ELSE IF ~IsFloatStr(num_str) THEN Raise("ValueError")
             ELSE IF Contains(ds_str, "+")
                  THEN Float(FloatOf(num_str) + increment)
                  ELSE Float(FloatOf(num_str))

parse_ds_value(ds_str) == parse_ds_with(ds_str, PlusIncrement)

intl_parse_ds_value(ds_str) == parse_ds_with(ds_str, IntlPlusIncrement)

(***************************************************************************)
(* Raw records (dicts) and the chart normalizer.                           *)
(***************************************************************************)
\* NEW_VERSION = "maimai でらっくす PRiSM" (both files); the second label
\* is "maimai でらっくす PRiSM PLUS" of intl_convert.py line 351.
NEW_VERSION == <<"P", "R", "i", "S", "M">>
PRISM_PLUS == <<"P", "R", "i", "S", "M", "+">>

Has(song, key) == key \in DOMAIN song

\* song.get(key, default)
Get(song, key, default) == IF Has(song, key) THEN song[key] ELSE default

\* song.get(key): truthy when the key is present with a non-empty string.
Truthy(song, key) == Has(song, key) /\ song[key] # <<>>

\* s.replace(pat, "")
RECURSIVE RemoveAll(_, _)
RemoveAll(s, pat) ==
    IF Len(s) < Len(pat) THEN s
    ELSE IF SubSeq(s, 1, Len(pat)) = pat
         THEN RemoveAll(SubSeq(s, Len(pat) + 1, Len(s)), pat)
         ELSE <<Head(s)>> \o RemoveAll(Tail(s), pat)

PngSuffix == <<".", "p", "n", "g">>

temporary_id(song) == RemoveAll(Get(song, "image_url", <<>>), PngSuffix)

\* try: int(value) except ValueError: 0
IntOrZero(value) == IF IsIntStr(value) THEN IntOf(value) ELSE 0

SdNoteKeys == <<"notes_tap", "notes_hold", "notes_slide", "notes_break">>
DxNoteKeys ==
    <<"notes_tap", "notes_hold", "notes_slide", "notes_touch", "notes_break">>

NoteKeys(song_type) == IF song_type = "SD" THEN SdNoteKeys ELSE DxNoteKeys

NotesOf(song, prefix, note_keys) ==
    [i \in 1..Len(note_keys) |->
        IntOrZero(Get(song, prefix \o "_" \o note_keys[i], <<>>))]

parse_notes(song, difficulty_prefix, song_type) ==
    [notes |-> NotesOf(song, difficulty_prefix, NoteKeys(song_type)),
     charter |-> Get(song, difficulty_prefix \o "_designer", "-")]

ZeroChart(n) == [notes |-> [i \in 1..n |-> 0], charter |-> "-"]

\* str(bpm_value).isdigit()
Bpm(song) ==
    LET bpm_value == Get(song, "bpm", <<"0">>)
    IN  IF IsIntStr(bpm_value) THEN IntOf(bpm_value) ELSE 0

\* "其他游戏", the default genre.
DefaultGenre == "other games"

BasicInfo(song, raw_from, from_mapping_) ==
    LET mapped_from == map_date_to_version(raw_from, from_mapping_)
    IN  IF IsRaise(mapped_from) THEN mapped_from
        ELSE [title |-> song["title"],
              artist |-> song["artist"],
              genre |-> Get(song, "catcode", DefaultGenre),
              bpm |-> Bpm(song),
              release_date |-> raw_from,
              from |-> mapped_from,
              is_new |-> (mapped_from = NEW_VERSION)]

\* convert.py: date_added, except that the DX entry of a record holding both
\* families takes date_updated.
parse_basic_info(song, song_type, from_mapping_) ==
    LET raw_from ==
            IF Has(song, "lev_bas") /\ Has(song, "dx_lev_bas")
            THEN (IF song_type = "SD" THEN Get(song, "date_added", <<>>)
                  ELSE Get(song, "date_updated", <<>>))
            ELSE Get(song, "date_added", <<>>)
    IN  BasicInfo(song, raw_from, from_mapping_)

\* The international release of maimai DX: 20191115.
IntlDxDate == 20191115

\* The two titles with a hard-coded date:
\* "夜明けまであと３秒" (20170214) and "みんなの" (20181002).
TitleYoake == "Yoake made ato 3 byou"
TitleMinnano == "Minnano"
DateYoake == <<"2", "0", "1", "7", "0", "2", "1", "4">>
DateMinnano == <<"2", "0", "1", "8", "1", "0", "0", "2">>

\* a or b on strings
OrElse(a, b) == IF a # <<>> THEN a ELSE b

intl_parse_basic_info(song, song_type, from_mapping_) ==
    LET added == Get(song, "date_intl_added", <<>>)
        updated == Get(song, "date_intl_updated", <<>>)
        both == Has(song, "lev_bas") /\ Has(song, "dx_lev_bas")
        \* int(song.get("date_intl_added", 0))
        date_added == IF Has(song, "date_intl_added") THEN IntOf(added) ELSE 0
        selected ==
            IF song_type = "utage" THEN OrElse(updated, added)
            ELSE IF both
                 THEN (IF date_added < IntlDxDate
                       THEN (IF song_type = "SD" THEN added ELSE updated)
                       ELSE (IF song_type = "DX" THEN added ELSE updated))
                 ELSE added
        raw_from ==
            IF song["title"] = TitleMinnano THEN DateMinnano
            ELSE IF song["title"] = TitleYoake THEN DateYoake
            ELSE selected
    IN  IF Has(song, "date_intl_added") /\ ~IsIntStr(added)
        THEN Raise("ValueError")
        ELSE BasicInfo(song, raw_from, from_mapping_)

\* The tiers of a family: remas only when its level field is non-empty.
Diffs(song, prefix) ==
    IF Truthy(song, prefix \o "_remas")
    THEN <<"bas", "adv", "exp", "mas", "remas">>
    ELSE <<"bas", "adv", "exp", "mas">>

\* ds_str = song.get(diff_i_key) or song.get(level_key, "")
DsStr(song, level_key) ==
    IF Truthy(song, level_key \o "_i") THEN song[level_key \o "_i"]
    ELSE Get(song, level_key, <<>>)

AnyNoteKey(song, prefix, note_keys) ==
    \E i \in 1..Len(note_keys) : Has(song, prefix \o "_" \o note_keys[i])

\* One iteration of the loop over the tiers, given the parsed rating of the
\* tier and the result of the iterations that follow it.
TierStep(song, level_key, song_type, always_chart, difficulty, rest) ==
    LET rated == difficulty # NoneValue
        chart ==
            IF AnyNoteKey(song, level_key, NoteKeys(song_type))
            THEN <<parse_notes(song, level_key, song_type)>>
            ELSE IF always_chart
                 THEN <<ZeroChart(Len(NoteKeys(song_type)))>>
                 ELSE <<>>
    IN  IF IsRaise(difficulty) THEN difficulty
        ELSE IF IsRaise(rest) THEN rest
        ELSE [ds |-> (IF rated THEN <<difficulty.val>> ELSE <<>>) \o rest.ds,
              level |-> (IF rated THEN <<Get(song, level_key, <<>>)>>
                         ELSE <<>>) \o rest.level,
              charts |-> chart \o rest.charts]

\* The loop over the tiers: the ratings found, their labels, the sub-charts.
\* always_chart is intl_convert.py's else branch (a zero-filled sub-chart).
\* (The singleton sets bind each intermediate result to its value, so that
\* it is computed once.)
RECURSIVE TierLoop(_, _, _, _, _, _)
TierLoop(song, prefix, diffs, song_type, increment, always_chart) ==
    IF diffs = <<>> THEN [ds |-> <<>>, level |-> <<>>, charts |-> <<>>]
    ELSE
      CHOOSE result \in
        {TierStep(song, prefix \o "_" \o Head(diffs), song_type, always_chart,
                  difficulty, rest) :
           difficulty \in
             {parse_ds_with(DsStr(song, prefix \o "_" \o Head(diffs)),
                            increment)},
           rest \in
             {TierLoop(song, prefix, Tail(diffs), song_type, increment,
                       always_chart)}} : TRUE

\* MID_COUNTER += 1; cids.append(MID_COUNTER), once per rating.
NewCids(counter, n) == [i \in 1..n |-> counter + i]

Entry(song, type, comment, tiers, cids, basic_info) ==
    IF IsRaise(tiers) THEN tiers
    ELSE IF IsRaise(basic_info) THEN basic_info
    ELSE [id |-> temporary_id(song),
          title |-> song["title"],
          type |-> type,
          comment |-> comment,
          ds |-> tiers.ds,
          level |-> tiers.level,
          cids |-> cids,
          charts |-> tiers.charts,
          basic_info |-> basic_info]

process_sd_song(song, from_mapping_) ==
    Entry(song, "SD", "",
          TierLoop(song, "lev", Diffs(song, "lev"), "SD", PlusIncrement, FALSE),
          <<>>, parse_basic_info(song, "SD", from_mapping_))

process_dx_song(song, from_mapping_) ==
    Entry(song, "DX", "",
          TierLoop(song, "dx_lev", Diffs(song, "dx_lev"), "DX", PlusIncrement,
                   FALSE),
          <<>>, parse_basic_info(song, "DX", from_mapping_))

UtageNotes(song, prefix) ==
    [notes |-> NotesOf(song, prefix, DxNoteKeys), charter |-> "-"]

process_utage_song(song, from_mapping_) ==
    LET ut_str == OrElse(Get(song, "lev_utage_i", <<>>),
                         Get(song, "lev_utage", <<>>))
        difficulty == parse_ds_value(ut_str)
        tiers ==
            IF IsRaise(difficulty) THEN difficulty
            ELSE [ds |-> IF difficulty # NoneValue THEN <<difficulty.val>>
                         ELSE <<>>,
                  level |-> <<Get(song, "lev_utage", <<>>)>>,
                  charts |-> <<UtageNotes(song, "lev_utage")>>]
    IN  Entry(song, "UTAGE", Get(song, "comment", ""), tiers, <<>>,
              parse_basic_info(song, "utage", from_mapping_))

intl_process_sd_song(song, from_mapping_, counter) ==
    LET tiers == TierLoop(song, "lev", Diffs(song, "lev"), "SD",
                          IntlPlusIncrement, TRUE)
    IN  Entry(song, "SD", "", tiers,
              IF IsRaise(tiers) THEN <<>> ELSE NewCids(counter, Len(tiers.ds)),
              intl_parse_basic_info(song, "SD", from_mapping_))

intl_process_dx_song(song, from_mapping_, counter) ==
    LET tiers == TierLoop(song, "dx_lev", Diffs(song, "dx_lev"), "DX",
                          IntlPlusIncrement, TRUE)
    IN  Entry(song, "DX", "", tiers,
              IF IsRaise(tiers) THEN <<>> ELSE NewCids(counter, Len(tiers.ds)),
              intl_parse_basic_info(song, "DX", from_mapping_))

\* Dual form when "lev_utage_right_notes" is a key, single form when
\* "lev_utage_left" is no key; otherwise ds, level_list and chart are never
\* bound and line 301 raises UnboundLocalError.
intl_process_utage_song(song, from_mapping_, counter) ==
    LET level == Get(song, "lev_utage", <<>>)
        difficulty == intl_parse_ds_value(level)
        one == IF difficulty # NoneValue THEN <<difficulty.val>> ELSE <<>>
        tiers ==
            IF IsRaise(difficulty) THEN difficulty
            ELSE IF Has(song, "lev_utage_right_notes")
            THEN [ds |-> one \o one,
                  level |-> <<level, level>>,
                  charts |-> <<UtageNotes(song, "lev_utage_left"),
                               UtageNotes(song, "lev_utage_right")>>]
            ELSE IF ~Has(song, "lev_utage_left")
            THEN [ds |-> one,
                  level |-> <<level>>,
                  charts |-> <<UtageNotes(song, "lev_utage")>>]
            ELSE Raise("UnboundLocalError")
    IN  Entry(song, "UTAGE", Get(song, "comment", ""), tiers,
              IF IsRaise(tiers) THEN <<>> ELSE NewCids(counter, Len(tiers.ds)),
              intl_parse_basic_info(song, "utage", from_mapping_))

(***************************************************************************)
(* The reconciliation passes.                                              *)
(***************************************************************************)
SpecialId1 ==
    <<"1", "e", "4", "4", "5", "1", "6", "a", "8", "a", "3", "b", "5", "a",
      "5", "1">>
SpecialId2 ==
    <<"e", "9", "0", "f", "7", "9", "d", "9", "d", "c", "f", "f", "8", "4",
      "d", "f">>
Id131 == <<"1", "3", "1">>
Id383 == <<"3", "8", "3">>

special_cases ==
    (SpecialId1 :> [id |-> Id131, title |-> "Link"])
    @@ (SpecialId2 :> [id |-> Id383, title |-> "Link(COF)"])

\* convert.py: only the id is overwritten.
update_special_cases(output) ==
    [i \in DOMAIN output |->
        IF output[i].id \in DOMAIN special_cases
        THEN [output[i] EXCEPT !.id = special_cases[output[i].id].id]
        ELSE output[i]]

\* intl_convert.py: id, title and basic_info.title are overwritten.
intl_update_special_cases(output) ==
    [i \in DOMAIN output |->
        IF output[i].id \in DOMAIN special_cases
        THEN LET sc == special_cases[output[i].id]
             IN  [output[i] EXCEPT !.id = sc.id, !.title = sc.title,
                                   !.basic_info.title = sc.title]
        ELSE output[i]]

KeyOf(item) == <<Get(item, "title", ""), Get(item, "type", "")>>

HasKey(items, key) == \E j \in DOMAIN items : KeyOf(items[j]) = key

\* A dict comprehension keeps, for each key, the last item that has it.
LastWithKey(items, key) ==
    items[CHOOSE j \in DOMAIN items :
            /\ KeyOf(items[j]) = key
            /\ \A k \in DOMAIN items : KeyOf(items[k]) = key => k <= j]

\* if song.get("id") in ["131", "383"]: continue
NoSkip(song) == FALSE

SkipSpecial(song) == song.id \in {Id131, Id383}

update_ids_from_origin(output, origin) ==
    [i \in DOMAIN output |->
        LET song == output[i]
            key == KeyOf(song)
        IN  IF SkipSpecial(song) THEN song
            ELSE IF HasKey(origin, key)
                    /\ Get(LastWithKey(origin, key), "id", <<>>) # <<>>
                 THEN [song EXCEPT !.id = LastWithKey(origin, key).id]
                 ELSE song]

OverwriteThree(ds, df_ds) ==
    [k \in DOMAIN ds |-> IF k <= 3 /\ k <= Len(df_ds) THEN df_ds[k] ELSE ds[k]]

\* convert.py: the first two ratings, when both lists hold at least two.
OverwriteTwo(ds, df_ds) ==
    [k \in DOMAIN ds |-> IF k <= 2 THEN df_ds[k] ELSE ds[k]]

update_ds_from_diving_fish(output, diving_fish) ==
    [i \in DOMAIN output |->
        LET song == output[i]
            key == KeyOf(song)
        IN  IF HasKey(diving_fish, key)
            THEN LET df_song == LastWithKey(diving_fish, key)
                 IN  IF Has(df_song, "ds") /\ Len(df_song.ds) >= 2
                        /\ Len(song.ds) >= 2
                     THEN [song EXCEPT !.ds = OverwriteTwo(song.ds, df_song.ds)]
                     ELSE song
            ELSE song]

\* The offset of a DX id from its SD id (line 315).
IdOffset == 10000

\* title_groups[title][type] = song: the last SD and the last DX of a title.
IsLastOfType(output, i) ==
    \A k \in DOMAIN output :
        (output[k].title = output[i].title /\ output[k].type = output[i].type)
            => k <= i

GroupMember(output, title, type) ==
    output[CHOOSE k \in DOMAIN output :
             /\ output[k].title = title
             /\ output[k].type = type
             /\ IsLastOfType(output, k)]

adjust_sd_dx_ids(output) ==
    [i \in DOMAIN output |->
        LET song == output[i]
            paired == \E k \in DOMAIN output :
                          output[k].title = song.title /\ output[k].type = "SD"
        IN  IF song.type = "DX" /\ IsLastOfType(output, i) /\ paired
            THEN LET sd_song == GroupMember(output, song.title, "SD")
                 IN  IF IsIntStr(sd_song.id)
                     THEN [song EXCEPT
                             !.id = StrOf(IntOf(sd_song.id) + IdOffset)]
                     ELSE song
            ELSE song]

(***************************************************************************)
(* intl_convert.py: its passes, remove_delete, fix_version and the catalog *)
(* synthesis.                                                              *)
(***************************************************************************)
NewestVersions == {NEW_VERSION, PRISM_PLUS}

intl_update_ids_from_origin(output, origin) ==
    [i \in DOMAIN output |->
        LET song == output[i]
            key == KeyOf(song)
        IN  IF SkipSpecial(song) \/ ~HasKey(origin, key) THEN song
            ELSE
              LET origin_item == LastWithKey(origin, key)
                  version == Get(origin_item, "from", song.basic_info.from)
              IN  IF version \notin NewestVersions \/ song.type = "UTAGE"
                  THEN [song EXCEPT !.id = Get(origin_item, "id", song.id)]
                  ELSE [song EXCEPT
                          !.basic_info.bpm =
                              Get(origin_item, "bpm",
                                  origin_item.basic_info.bpm),
                          !.ds = origin_item.ds,
                          !.charts = Get(origin_item, "charts", song.charts)]]

\* main() passes origin_music_data as the community dataset (line 487).
intl_update_ds_from_diving_fish(output, diving_fish) ==
    [i \in DOMAIN output |->
        IF HasKey(diving_fish, KeyOf(output[i]))
        THEN [output[i] EXCEPT
                !.ds = LastWithKey(diving_fish, KeyOf(output[i])).ds]
        ELSE output[i]]

Released(item) == item.basic_info.release_date # <<>>

remove_delete(output) == SelectSeq(output, Released)

\* Every matching j overwrites: the last one of the cache stays.
fix_version(output, origin) ==
    [i \in DOMAIN output |->
        LET song == output[i]
            key == <<song.title, song.type>>
        IN  IF ~HasKey(origin, key) THEN song
            ELSE LET j == LastWithKey(origin, key)
                 IN  IF song.type # "UTAGE"
                     THEN [song EXCEPT !.basic_info.from = j.basic_info.from,
                                       !.ds = j.ds]
                     ELSE [song EXCEPT !.basic_info.from = j.basic_info.from]]

\* Lines 416-425 for one i and one j.
FoldOne(i, j) ==
    LET j1 == IF i.title = j.title /\ i.type = "UTAGE"
              THEN [j EXCEPT !.level = i.level, !.ds = i.ds,
                             !.charts = i.charts, !.comment = i.comment]
              ELSE j
    IN  IF i.title = j1.title /\ i.type = j1.type
        THEN [j1 EXCEPT !.id = i.id, !.cids = i.cids,
                        !.basic_info.release_date = i.basic_info.release_date]
        ELSE j1

\* The outer loop as seen from one cached entry j.
RECURSIVE FoldOnto(_, _)
FoldOnto(j, output) ==
    IF output = <<>> THEN j
    ELSE CHOOSE result \in
           {FoldOnto(j1, Tail(output)) : j1 \in {FoldOne(Head(output), j)}} :
           TRUE

KeepIsNew(j) == j

RecomputeIsNew(j) ==
    [j EXCEPT !.basic_info.is_new = (j.basic_info.from = NEW_VERSION)]

intl_music_data(output, origin) ==
    remove_delete([k \in DOMAIN origin |->
                      RecomputeIsNew(FoldOnto(origin[k], output))])

(***************************************************************************)
(* main(): the loop over the raw feed.                                     *)
(***************************************************************************)
\* Lines 335-342 of convert.py: up to three entries per record.
RECURSIVE NormalizeAll(_, _)
NormalizeAll(songs, from_mapping_) ==
    IF songs = <<>> THEN <<>>
    ELSE
      LET song == Head(songs)
          sd == IF Has(song, "lev_bas")
                THEN <<process_sd_song(song, from_mapping_)>> ELSE <<>>
          dx == IF Has(song, "dx_lev_bas")
                THEN <<process_dx_song(song, from_mapping_)>> ELSE <<>>
          ut == IF Has(song, "lev_utage")
                THEN <<process_utage_song(song, from_mapping_)>> ELSE <<>>
      IN  sd \o dx \o ut \o NormalizeAll(Tail(songs), from_mapping_)

\* A raised exception leaves a Raise entry, which ends the run.
CidsOf(entries) == IF entries = <<>> \/ IsRaise(entries[1]) THEN 0
                   ELSE Len(entries[1].cids)

\* The entries of one record, in the order SD, DX, UTAGE; each takes the
\* counter as the one before left it.
IntlWithUtage(song, from_mapping_, counter, sd, dx) ==
    sd \o dx \o
    (IF Has(song, "lev_utage")
     THEN <<intl_process_utage_song(song, from_mapping_,
                                    counter + CidsOf(sd) + CidsOf(dx))>>
     ELSE <<>>)

IntlWithDx(song, from_mapping_, counter, sd) ==
    CHOOSE result \in
      {IntlWithUtage(song, from_mapping_, counter, sd, dx) :
         dx \in {IF Has(song, "dx_lev_bas")
                 THEN <<intl_process_dx_song(song, from_mapping_,
                                             counter + CidsOf(sd))>>
                 ELSE <<>>}} : TRUE

IntlSongEntries(song, from_mapping_, counter) ==
    CHOOSE result \in
      {IntlWithDx(song, from_mapping_, counter, sd) :
         sd \in {IF Has(song, "lev_bas")
                 THEN <<intl_process_sd_song(song, from_mapping_, counter)>>
                 ELSE <<>>}} : TRUE

RECURSIVE SumCids(_)
SumCids(entries) ==
    IF entries = <<>> THEN 0
    ELSE (IF IsRaise(Head(entries)) THEN 0 ELSE Len(Head(entries).cids))
         + SumCids(Tail(entries))

\* Lines 466-473 of intl_convert.py: the same loop, threading MID_COUNTER.
RECURSIVE IntlNormalizeAll(_, _, _)
IntlNormalizeAll(songs, from_mapping_, counter) ==
    IF songs = <<>> THEN <<>>
    ELSE
      CHOOSE result \in
        {entries \o IntlNormalizeAll(Tail(songs), from_mapping_, next) :
           entries \in {IntlSongEntries(Head(songs), from_mapping_, counter)},
           next \in {counter
                     + SumCids(IntlSongEntries(Head(songs), from_mapping_,
                                               counter))}} : TRUE

AnyRaise(entries) == \E i \in DOMAIN entries : IsRaise(entries[i])

(***************************************************************************)
(* The inputs: raw records, cached catalog entries, community items.       *)
(***************************************************************************)
MaxSongs == 2
MaxOrigin == 2
MaxDivingFish == 1

OldVersion == <<"m", "a", "i">>
D20120711 == <<"2", "0", "1", "2", "0", "7", "1", "1">>
D20150101 == <<"2", "0", "1", "5", "0", "1", "0", "1">>
D20180101 == <<"2", "0", "1", "8", "0", "1", "0", "1">>
D20200101 == <<"2", "0", "2", "0", "0", "1", "0", "1">>
D20240912 == <<"2", "0", "2", "4", "0", "9", "1", "2">>
D20250313 == <<"2", "0", "2", "5", "0", "3", "1", "3">>

\* music_data/mapping.json and music_data/intl_mapping.json.
MappingFile == (D20120711 :> OldVersion) @@ (D20240912 :> NEW_VERSION)
IntlMappingFile == (D20120711 :> OldVersion) @@ (D20250313 :> NEW_VERSION)

\* A record with both families; only its basic tier has note counts.
SongB ==
    [title |-> "B", artist |-> "ar", image_url |-> <<"b">> \o PngSuffix,
     bpm |-> <<"1", "5", "0">>,
     lev_bas |-> <<"3">>, lev_adv |-> <<"5">>, lev_exp |-> <<"7", "+">>,
     lev_exp_i |-> <<"7", ".", "8">>, lev_mas |-> <<"1", "0">>,
     lev_bas_notes_tap |-> <<"9", "0">>,
     dx_lev_bas |-> <<"4">>, dx_lev_adv |-> <<"6">>, dx_lev_exp |-> <<"9">>,
     dx_lev_mas |-> <<"1", "2", "+">>, dx_lev_remas |-> <<"1", "3">>,
     dx_lev_bas_notes_touch |-> <<"7">>,
     date_added |-> D20150101, date_updated |-> D20240912,
     date_intl_added |-> D20180101, date_intl_updated |-> D20250313]

\* Another song of the same title, deluxe only, not released abroad.
SongB2 ==
    [title |-> "B", artist |-> "other", image_url |-> <<"c">> \o PngSuffix,
     bpm |-> <<"f", "a", "s", "t">>, catcode |-> "pops",
     dx_lev_bas |-> <<"2">>, dx_lev_adv |-> <<"4">>, dx_lev_exp |-> <<"6">>,
     dx_lev_mas |-> <<"8">>,
     dx_lev_bas_notes_tap |-> <<"1">>, dx_lev_adv_notes_tap |-> <<"2">>,
     dx_lev_exp_notes_hold |-> <<"3">>, dx_lev_mas_notes_break |-> <<>>,
     date_added |-> D20240912]

\* The first special case; its master tier has no level.
SongLink ==
    [title |-> "Link", artist |-> "ar",
     image_url |-> SpecialId1 \o PngSuffix,
     lev_bas |-> <<"1">>, lev_adv |-> <<"2">>, lev_exp |-> <<"3">>,
     lev_mas |-> <<>>,
     date_added |-> D20120711, date_intl_added |-> D20250313]

\* A special-event record, single form.
SongU ==
    [title |-> "U", artist |-> "ar", image_url |-> <<"u">> \o PngSuffix,
     bpm |-> <<"9", "9">>, comment |-> "party",
     lev_utage |-> <<"1", "3", "?">>, lev_utage_notes_tap |-> <<"5">>,
     date_added |-> D20240912, date_intl_added |-> D20200101]

\* A special-event record in the dual form, under the title of SongB.
SongBU ==
    [title |-> "B", artist |-> "ar", image_url |-> <<"v">> \o PngSuffix,
     comment |-> "co-op", lev_utage |-> <<"1", "4">>,
     lev_utage_right_notes |-> <<"6">>,
     lev_utage_left_notes_tap |-> <<"2">>,
     lev_utage_right_notes_tap |-> <<"4">>,
     date_added |-> D20240912, date_intl_added |-> D20200101]

RawSongs == {SongB, SongB2, SongLink, SongU, SongBU}

CachedInfo(title, release_date, from, is_new) ==
    [title |-> title, artist |-> "ar", genre |-> DefaultGenre, bpm |-> 200,
     release_date |-> release_date, from |-> from, is_new |-> is_new]

CachedChart == [notes |-> <<1, 2, 3, 4>>, charter |-> "hand"]

\* Cached entries; ds is in the model's fixed point.  The cached standard
\* entry of B has a fifth tier, and is_new is stale in all three.
OriginB_SD ==
    [id |-> <<"8">>, title |-> "B", type |-> "SD", comment |-> "",
     ds |-> <<3 * Scale, 5 * Scale, 8 * Scale, 10 * Scale, 11 * Scale>>,
     level |-> <<<<"3">>, <<"5">>, <<"8">>, <<"1", "0">>, <<"1", "1">>>>,
     cids |-> <<>>,
     charts |-> <<CachedChart, CachedChart, CachedChart, CachedChart,
                  CachedChart>>,
     basic_info |-> CachedInfo("B", D20150101, OldVersion, TRUE)]

OriginB_DX ==
    [id |-> <<"9">>, title |-> "B", type |-> "DX", comment |-> "",
     ds |-> <<4 * Scale, 6 * Scale>>,
     level |-> <<<<"4">>, <<"6">>>>,
     cids |-> <<>>,
     charts |-> <<CachedChart, CachedChart>>,
     basic_info |-> CachedInfo("B", <<>>, NEW_VERSION, FALSE)]

OriginLink ==
    [id |-> <<"5">>, title |-> "Link", type |-> "SD", comment |-> "",
     ds |-> <<1 * Scale, 2 * Scale, 3 * Scale>>,
     level |-> <<<<"1">>, <<"2">>, <<"3">>>>,
     cids |-> <<>>,
     charts |-> <<CachedChart, CachedChart, CachedChart>>,
     basic_info |-> CachedInfo("Link", D20200101, OldVersion, TRUE)]

OriginEntries == {OriginB_SD, OriginB_DX, OriginLink}

\* Community items: {id, title, type, ds}.
DfB_SD ==
    [id |-> <<"7", "7">>, title |-> "B", type |-> "SD",
     ds |-> <<Scale, 2 * Scale, 3 * Scale, 4 * Scale>>]

DfB_DX ==
    [id |-> <<"7", "8">>, title |-> "B", type |-> "DX",
     ds |-> <<9 * Scale>>]

DivingFishItems == {DfB_SD, DfB_DX}

SeqsUpTo(S, n) == UNION {[1..k -> S] : k \in 0..n}

Feeds == SeqsUpTo(RawSongs, MaxSongs) \ {<<>>}

(***************************************************************************)
(* The two programs as one state machine: call.pipeline says which main()  *)
(* is running, pc where it is.                                             *)
(***************************************************************************)
MaxRuns == 2

Init ==
    /\ pc = "start"
    /\ call \in [pipeline : {"jp", "intl"}, run : {1}]
    /\ ret = NoneValue
    /\ data \in Feeds
    /\ from_mapping = IF call.pipeline = "jp" THEN MappingFile
                      ELSE IntlMappingFile
    /\ origin_music_data \in SeqsUpTo(OriginEntries, MaxOrigin)
    /\ diving_fish_data \in
           IF call.pipeline = "jp"
           THEN SeqsUpTo(DivingFishItems, MaxDivingFish)
           ELSE {<<>>}
    /\ output_data = <<>>
    /\ before_pass = <<>>
    /\ first_output = <<>>
    /\ MID_COUNTER = 0
    /\ intl_file = <<>>

inputVars == <<call, ret, data, from_mapping, origin_music_data,
               diving_fish_data, first_output>>

At(pipeline, where) == call.pipeline = pipeline /\ pc = where

Normalize ==
    /\ At("jp", "start")
    /\ LET entries == NormalizeAll(data, from_mapping)
       IN  /\ output_data' = IF AnyRaise(entries) THEN <<>> ELSE entries
           /\ pc' = IF AnyRaise(entries) THEN "raised" ELSE "normalized"
    /\ before_pass' = <<>>
    /\ UNCHANGED <<inputVars, MID_COUNTER, intl_file>>

SpecialCases ==
    /\ At("jp", "normalized")
    /\ before_pass' = output_data
    /\ output_data' =
           update_special_cases(output_data)
    /\ pc' = "special"
    /\ UNCHANGED <<inputVars, MID_COUNTER, intl_file>>

IdsFromOrigin ==
    /\ At("jp", "special")
    /\ before_pass' = output_data
    /\ output_data' =
           update_ids_from_origin(output_data, origin_music_data)
    /\ pc' = "origin"
    /\ UNCHANGED <<inputVars, MID_COUNTER, intl_file>>

DsFromDivingFish ==
    /\ At("jp", "origin")
    /\ before_pass' = output_data
    /\ output_data' =
           update_ds_from_diving_fish(output_data, diving_fish_data)
    /\ pc' = "diving_fish"
    /\ UNCHANGED <<inputVars, MID_COUNTER, intl_file>>

AdjustSdDxIds ==
    /\ At("jp", "diving_fish")
    /\ before_pass' = output_data
    /\ output_data' =
           adjust_sd_dx_ids(output_data)
    /\ pc' = "saved"
    /\ UNCHANGED <<inputVars, MID_COUNTER, intl_file>>

\* The catalog written by a run is the cached (origin) catalog of the next.
Rerun ==
    /\ At("jp", "saved")
    /\ call.run < MaxRuns
    /\ call' = [call EXCEPT !.run = @ + 1]
    /\ first_output' = IF call.run = 1 THEN output_data ELSE first_output
    /\ origin_music_data' = output_data
    /\ output_data' = <<>>
    /\ before_pass' = <<>>
    /\ pc' = "start"
    /\ UNCHANGED <<ret, data, from_mapping, diving_fish_data, MID_COUNTER,
                   intl_file>>

IntlNormalize ==
    /\ At("intl", "start")
    /\ LET entries == IntlNormalizeAll(data, from_mapping, MID_COUNTER)
       IN  /\ output_data' = IF AnyRaise(entries) THEN <<>> ELSE entries
           /\ pc' = IF AnyRaise(entries) THEN "raised" ELSE "normalized"
           /\ MID_COUNTER' = IF AnyRaise(entries) THEN MID_COUNTER
                             ELSE MID_COUNTER + SumCids(entries)
    /\ before_pass' = <<>>
    /\ UNCHANGED <<inputVars, intl_file>>

IntlSpecialCases ==
    /\ At("intl", "normalized")
    /\ before_pass' = output_data
    /\ output_data' =
           intl_update_special_cases(output_data)
    /\ pc' = "special"
    /\ UNCHANGED <<inputVars, MID_COUNTER, intl_file>>

IntlIdsFromOrigin ==
    /\ At("intl", "special")
    /\ before_pass' = output_data
    /\ output_data' =
           intl_update_ids_from_origin(output_data, origin_music_data)
    /\ pc' = "origin"
    /\ UNCHANGED <<inputVars, MID_COUNTER, intl_file>>

IntlDsFromDivingFish ==
    /\ At("intl", "origin")
    /\ before_pass' = output_data
    /\ output_data' =
           intl_update_ds_from_diving_fish(output_data, origin_music_data)
    /\ pc' = "diving_fish"
    /\ UNCHANGED <<inputVars, MID_COUNTER, intl_file>>

IntlAdjustSdDxIds ==
    /\ At("intl", "diving_fish")
    /\ before_pass' = output_data
    /\ output_data' =
           adjust_sd_dx_ids(output_data)
    /\ pc' = "adjusted"
    /\ UNCHANGED <<inputVars, MID_COUNTER, intl_file>>

RemoveDelete ==
    /\ At("intl", "adjusted")
    /\ before_pass' = output_data
    /\ output_data' =
           remove_delete(output_data)
    /\ pc' = "released"
    /\ UNCHANGED <<inputVars, MID_COUNTER, intl_file>>

\* fix_version reads the cache file again; convert_intl_music_data.json is
\* then written from output_data.
FixVersion ==
    /\ At("intl", "released")
    /\ before_pass' = output_data
    /\ output_data' =
           fix_version(output_data, origin_music_data)
    /\ pc' = "saved"
    /\ UNCHANGED <<inputVars, MID_COUNTER, intl_file>>

IntlMusicData ==
    /\ At("intl", "saved")
    /\ intl_file' = intl_music_data(output_data, origin_music_data)
    /\ pc' = "done"
    /\ UNCHANGED <<inputVars, output_data, before_pass, MID_COUNTER>>

\* main() of intl_convert.py called again in the same process: MID_COUNTER
\* is a module global set to 0 at import only (line 10), main() does not
\* assign it before the loop of lines 465-473.
IntlRerun ==
    /\ At("intl", "done")
    /\ call.run < MaxRuns
    /\ call' = [call EXCEPT !.run = @ + 1]
    /\ output_data' = <<>>
    /\ before_pass' = <<>>
    /\ pc' = "start"
    /\ UNCHANGED <<ret, data, from_mapping, origin_music_data,
                   diving_fish_data, first_output, MID_COUNTER, intl_file>>

Next ==
    \/ Normalize
    \/ SpecialCases
    \/ IdsFromOrigin
    \/ DsFromDivingFish
    \/ AdjustSdDxIds
    \/ Rerun
    \/ IntlNormalize
    \/ IntlSpecialCases
    \/ IntlIdsFromOrigin
    \/ IntlDsFromDivingFish
    \/ IntlAdjustSdDxIds
    \/ RemoveDelete
    \/ FixVersion
    \/ IntlMusicData
    \/ IntlRerun

Spec == Init /\ [][Next]_vars

(***************************************************************************)
(* The two pure functions, each called once on an input drawn from a small *)
(* set.  The pipeline's variables stay idle in these specifications.       *)
(***************************************************************************)
PipelineIdle ==
    /\ data = <<>>
    /\ from_mapping = <<>>
    /\ origin_music_data = <<>>
    /\ diving_fish_data = <<>>
    /\ output_data = <<>>
    /\ before_pass = <<>>
    /\ first_output = <<>>
    /\ MID_COUNTER = 0
    /\ intl_file = <<>>

pipelineVars == <<data, from_mapping, origin_music_data, diving_fish_data,
                  output_data, before_pass, first_output, MID_COUNTER,
                  intl_file>>

\* Mapping keys: three canonical date strings and one zero-padded spelling.
KeyStrings == {<<"2">>, <<"0", "2">>, <<"5">>, <<"1", "0">>}
VersionLabels == {<<"A">>, <<"B">>, <<"C">>}
DateStrings ==
    {<<>>, <<"x">>, <<"1">>, <<"2">>, <<"0", "2">>, <<"3">>, <<"5">>,
     <<"0", "5">>, <<"7">>, <<"1", "0">>, <<"1", "1">>}

Mappings ==
    UNION {[K -> VersionLabels] :
             K \in {K \in SUBSET KeyStrings : Cardinality(K) <= MaxBoundaries}}

MapInit ==
    /\ pc = "call"
    /\ call \in [raw_date_str : DateStrings, mapping : Mappings]
    /\ ret = NoneValue
    /\ PipelineIdle

MapCall ==
    /\ pc = "call"
    /\ ret' = map_date_to_version(call.raw_date_str, call.mapping)
    /\ pc' = "returned"
    /\ UNCHANGED <<call, pipelineVars>>

MapNext == MapCall

SpecMap == MapInit /\ [][MapNext]_vars

\* Level labels: every string of at most MaxLabelLen characters.
LabelChars == {"1", "3", ".", "+", "?"}
LabelStrings == UNION {[1..n -> LabelChars] : n \in 0..MaxLabelLen}

ParseInit ==
    /\ pc = "call"
    /\ call \in [ds_str : LabelStrings, intl : BOOLEAN]
    /\ ret = NoneValue
    /\ PipelineIdle

ParseCall ==
    /\ pc = "call"
    /\ ret' = IF call.intl THEN intl_parse_ds_value(call.ds_str)
              ELSE parse_ds_value(call.ds_str)
    /\ pc' = "returned"
    /\ UNCHANGED <<call, pipelineVars>>

ParseNext == ParseCall

SpecParse == ParseInit /\ [][ParseNext]_vars

\* Special-event records: every level label below with every combination of
\* the optional left-side, right-side and single-chart fields.
UtageLevels == {<<"1", "4">>, <<"1", "3", "+">>, <<>>, <<".">>}

UtageBase(level) ==
    [title |-> "U", artist |-> "ar", image_url |-> <<"u">> \o PngSuffix,
     lev_utage |-> level, date_intl_added |-> D20200101]

UtageOptional ==
    [lev_utage_left |-> <<"1", "4">>,
     lev_utage_right_notes |-> <<"6">>,
     lev_utage_left_notes_tap |-> <<"2">>,
     lev_utage_right_notes_tap |-> <<"4">>,
     lev_utage_notes_tap |-> <<"5">>]

UtageRecord(level, optional) ==
    [key \in DOMAIN UtageBase(level) \cup optional |->
        IF key \in optional THEN UtageOptional[key]
        ELSE UtageBase(level)[key]]

UtageRecords ==
    {UtageRecord(level, optional) :
        level \in UtageLevels, optional \in SUBSET DOMAIN UtageOptional}

UtageInit ==
    /\ pc = "call"
    /\ call \in [song : UtageRecords]
    /\ ret = NoneValue
    /\ PipelineIdle

\* One call of process_utage_song of intl_convert.py; MID_COUNTER advances
\* by the number of chart ids handed out.
UtageCall ==
    /\ pc = "call"
    /\ ret' = intl_process_utage_song(call.song, IntlMappingFile, MID_COUNTER)
    /\ MID_COUNTER' = IF IsRaise(ret') THEN MID_COUNTER
                      ELSE MID_COUNTER + Len(ret'.cids)
    /\ pc' = "returned"
    /\ UNCHANGED <<call, data, from_mapping, origin_music_data,
                   diving_fish_data, output_data, before_pass, first_output,
                   intl_file>>

UtageNext == UtageCall

SpecUtage == UtageInit /\ [][UtageNext]_vars

(***************************************************************************)
(* C1.                                                                     *)
(***************************************************************************)
CanonicalKeys(mapping) ==
    \A k \in DOMAIN mapping : IsIntStr(k) /\ StrOf(IntOf(k)) = k

\* The call under way has a mapping with canonically spelled keys and an
\* integer date equal to boundary number i (1-based) of the sorted keys.
DateAtBoundary(i) ==
    /\ CanonicalKeys(call.mapping)
    /\ IsIntStr(call.raw_date_str)
    /\ i \in 1..Cardinality(DOMAIN call.mapping)
    /\ IntOf(call.raw_date_str) = SortedBoundaries(DOMAIN call.mapping)[i]

LabelOfBoundary(i) ==
    call.mapping[StrOf(SortedBoundaries(DOMAIN call.mapping)[i])]

\* C1 as stated: a date equal to boundary b_i, i >= 1, maps to the label of
\* the preceding boundary b_(i-1).
C1_PrecedingLabel ==
    pc = "returned" =>
        \A i \in 2..MaxBoundaries + 1 :
            DateAtBoundary(i) => ret = LabelOfBoundary(i - 1)

\* C1 amended: with canonically spelled keys, a date equal to boundary b_i
\* (any i >= 0) maps to the label of b_i itself.
C1_OwnLabel ==
    pc = "returned" =>
        \A i \in 1..MaxBoundaries + 1 :
            DateAtBoundary(i) => ret = LabelOfBoundary(i)

C1_Witness ==
    /\ pc = "returned"
    /\ \E i \in 2..MaxBoundaries + 1 :
        /\ DateAtBoundary(i)
        /\ i < Cardinality(DOMAIN call.mapping)
        /\ LabelOfBoundary(i) # LabelOfBoundary(i - 1)
        /\ ret = LabelOfBoundary(i)

(***************************************************************************)
(* C2.                                                                     *)
(***************************************************************************)
Increment == IF call.intl THEN IntlPlusIncrement ELSE PlusIncrement

\* C2: no digit or "." left after stripping gives None; otherwise the base
\* value, plus the pipeline's increment when the label contains "+".
C2_ParseTotal ==
    pc = "returned" =>
        LET num_str == StripNonNumeric(call.ds_str)
        IN  /\ Len(num_str) = 0 => ret = NoneValue
            /\ Len(num_str) > 0 /\ ~Contains(call.ds_str, "+") =>
                   ret = Float(FloatOf(num_str))
            /\ Len(num_str) > 0 /\ Contains(call.ds_str, "+") =>
                   ret = Float(FloatOf(num_str) + Increment)

\* The four examples of the claim, which the code does satisfy.
C2_Examples ==
    pc = "returned" /\ ~call.intl =>
        /\ call.ds_str = <<"1", "3">> => ret = Float(13 * Scale)
        /\ call.ds_str = <<"1", "3", "+">> =>
               ret = Float(13 * Scale + Scale \div 2)
        /\ call.ds_str \in {<<>>, <<"+">>} => ret = NoneValue

(***************************************************************************)
(* C3.                                                                     *)
(***************************************************************************)
\* The catalog as the four passes leave it.
AfterFourPasses == At("jp", "saved") \/ At("intl", "adjusted")

SdDxPair(i, k) ==
    /\ output_data[i].type = "SD"
    /\ output_data[k].type = "DX"
    /\ output_data[i].title = output_data[k].title
    /\ IsIntStr(output_data[i].id)

PairedId(i, k) ==
    output_data[k].id = StrOf(IntOf(output_data[i].id) + IdOffset)

\* C3 as stated: after the four passes every SD/DX pair of one title with a
\* numeric SD id has dx.id = str(int(sd.id) + 10000), also when a
\* (title, variant) occurs several times.
C3_EveryPair ==
    AfterFourPasses =>
        \A i, k \in DOMAIN output_data : SdDxPair(i, k) => PairedId(i, k)

(***************************************************************************)
(* C4.                                                                     *)
(***************************************************************************)
\* The first two ratings are the community-sourced ones (convert.py).
CommunityRatings(entry) ==
    SubSeq(entry.ds, 1, IF Len(entry.ds) < 2 THEN Len(entry.ds) ELSE 2)

\* C4: a second run on the same feed and community data, with the first
\* run's catalog as the cache, gives every entry the id and the community
\* ratings the first run gave it.
C4_RerunStable ==
    (At("jp", "saved") /\ call.run = 2) =>
        /\ Len(output_data) = Len(first_output)
        /\ \A i \in DOMAIN output_data :
            /\ output_data[i].id = first_output[i].id
            /\ CommunityRatings(output_data[i])
                   = CommunityRatings(first_output[i])

(***************************************************************************)
(* C5.                                                                     *)
(***************************************************************************)
\* C5: in every entry, at creation and afterwards, ds, level and charts have
\* the same length.
C5_EqualLengths ==
    \A i \in DOMAIN output_data :
        /\ Len(output_data[i].ds) = Len(output_data[i].level)
        /\ Len(output_data[i].ds) = Len(output_data[i].charts)

(***************************************************************************)
(* C6.                                                                     *)
(***************************************************************************)
\* The image-derived ids, entry by entry (the passes keep the order).
InitialIds ==
    LET entries == IF call.pipeline = "jp"
                   THEN NormalizeAll(data, from_mapping)
                   ELSE IntlNormalizeAll(data, from_mapping, 0)
    IN  [i \in DOMAIN entries |-> entries[i].id]

TableId(initial_id) ==
    IF initial_id = SpecialId1 THEN <<"1", "3", "1">> ELSE <<"3", "8", "3">>

\* C6: after pass 1 and pass 2, an entry whose image-derived id is a key of
\* the special-case table has the table's id, whatever the cache holds.
C6_SpecialCaseWins ==
    pc = "origin" =>
        \A i \in DOMAIN output_data :
            InitialIds[i] \in {SpecialId1, SpecialId2}
                => output_data[i].id = TableId(InitialIds[i])

\* The cache holds id "5" for the (title, variant) of a special-case entry.
C6_Witness ==
    /\ pc = "origin"
    /\ \E j \in DOMAIN origin_music_data : origin_music_data[j] = OriginLink
    /\ \E i \in DOMAIN output_data :
        /\ InitialIds[i] = SpecialId1
        /\ output_data[i].title = "Link" /\ output_data[i].type = "SD"
        /\ output_data[i].id = <<"1", "3", "1">>

(***************************************************************************)
(* C7.                                                                     *)
(***************************************************************************)
SameButDs(old, new) ==
    /\ new.id = old.id
    /\ new.title = old.title
    /\ new.type = old.type
    /\ new.comment = old.comment
    /\ new.level = old.level
    /\ new.cids = old.cids
    /\ new.charts = old.charts
    /\ new.basic_info = old.basic_info

SameFromPositionTwo(old, new) ==
    /\ Len(new.ds) = Len(old.ds)
    /\ \A k \in 3..Len(old.ds) : new.ds[k] = old.ds[k]

\* C7: pass 3 keeps the entries and their order and changes nothing but ds;
\* in convert.py it also keeps the ratings at (0-based) positions 2 and up.
C7_OnlyRatings ==
    pc = "diving_fish" =>
        /\ Len(output_data) = Len(before_pass)
        /\ \A i \in DOMAIN output_data :
            /\ SameButDs(before_pass[i], output_data[i])
            /\ call.pipeline = "jp"
                   => SameFromPositionTwo(before_pass[i], output_data[i])

\* Pass 3 of convert.py has rewritten the ratings of an entry of four tiers.
C7_Witness ==
    /\ At("jp", "diving_fish")
    /\ \E i \in DOMAIN output_data :
        /\ Len(output_data[i].ds) >= 3
        /\ output_data[i].ds[1] # before_pass[i].ds[1]
        /\ output_data[i].ds[2] # before_pass[i].ds[2]
        /\ output_data[i].ds[3] = before_pass[i].ds[3]

(***************************************************************************)
(* C8.                                                                     *)
(***************************************************************************)
Matches(i, j) == i.title = j.title /\ i.type = j.type

\* The release date a cached entry has after the fold: that of the last
\* catalog entry of its (title, variant), its own when there is none.
DateAfterFold(j) ==
    IF \E m \in DOMAIN output_data : Matches(output_data[m], j)
    THEN output_data[CHOOSE m \in DOMAIN output_data :
                       /\ Matches(output_data[m], j)
                       /\ \A n \in DOMAIN output_data :
                              Matches(output_data[n], j) => n <= m
                    ].basic_info.release_date
    ELSE j.basic_info.release_date

ReleasedAfterFold(j) == DateAfterFold(j) # <<>>

KeysOf(items) == [k \in DOMAIN items |-> <<items[k].title, items[k].type>>]

\* C8: the synthesized catalog has no entry with an empty release_date,
\* keeps (in order) every cached entry whose release_date is non-empty after
\* the fold, and has is_new = (from = NEW_VERSION) in every entry.
C8_Synthesis ==
    pc = "done" =>
        /\ \A k \in DOMAIN intl_file :
            /\ intl_file[k].basic_info.release_date # <<>>
            /\ intl_file[k].basic_info.is_new
                   = (intl_file[k].basic_info.from = NEW_VERSION)
        /\ KeysOf(intl_file)
               = KeysOf(SelectSeq(origin_music_data, ReleasedAfterFold))

\* A cached entry was dropped, and a kept one had a stale is_new.
C8_Witness ==
    /\ pc = "done"
    /\ Len(intl_file) < Len(origin_music_data)
    /\ \E k \in DOMAIN intl_file :
        /\ intl_file[k].title = "Link"
        /\ intl_file[k].basic_info.from # NEW_VERSION
        /\ ~intl_file[k].basic_info.is_new
        /\ \E j \in DOMAIN origin_music_data :
            /\ origin_music_data[j].title = "Link"
            /\ origin_music_data[j].basic_info.is_new

(***************************************************************************)
(* C9.                                                                     *)
(***************************************************************************)
\* C9: in every entry of the catalog, at creation and after every later
\* step, is_new holds exactly when from is NEW_VERSION.
C9_IsNewIffNewVersion ==
    \A i \in DOMAIN output_data :
        output_data[i].basic_info.is_new
            = (output_data[i].basic_info.from = NEW_VERSION)

(***************************************************************************)
(* C10.                                                                    *)
(***************************************************************************)
\* C10: in intl_convert.py cids is as long as ds in every entry, at creation
\* and in the catalog written out; in convert.py cids is empty.
C10_CidsAligned ==
    \A i \in DOMAIN output_data :
        IF call.pipeline = "intl"
        THEN Len(output_data[i].cids) = Len(output_data[i].ds)
        ELSE output_data[i].cids = <<>>

(***************************************************************************)
(* C11.                                                                    *)
(***************************************************************************)
\* The chart ids of a catalog in traversal order, tier order within an entry.
RECURSIVE AllCids(_)
AllCids(entries) ==
    IF entries = <<>> THEN <<>>
    ELSE Head(entries).cids \o AllCids(Tail(entries))

\* C11: in every run of intl_convert.py, a second run in the same process
\* included, the chart ids of the catalog the normalizer built, read in
\* traversal order, are 1, 2, 3, ...
C11_CountsFromOne ==
    At("intl", "normalized") =>
        AllCids(output_data) = [k \in 1..Len(AllCids(output_data)) |-> k]

(***************************************************************************)
(* C12.                                                                    *)
(***************************************************************************)
\* The label the mapping gives boundary b: the value of the key that reads b.
LabelFor(mapping, b) ==
    mapping[CHOOSE k \in DOMAIN mapping : IntOf(k) = b]

\* The call under way has an integer date and a non-empty mapping whose keys
\* read as pairwise different integers.
RangeCase ==
    /\ pc = "returned"
    /\ IsIntStr(call.raw_date_str)
    /\ DOMAIN call.mapping # {}
    /\ \A k \in DOMAIN call.mapping : IsIntStr(k)
    /\ \A k, l \in DOMAIN call.mapping : IntOf(k) = IntOf(l) => k = l

RangeRule ==
    LET date == IntOf(call.raw_date_str)
        b == SortedBoundaries(DOMAIN call.mapping)
        n == Len(b)
    IN  /\ ~IsRaise(ret)
        /\ date < b[1] => ret = LabelFor(call.mapping, b[1])
        /\ date >= b[n] => ret = LabelFor(call.mapping, b[n])
        /\ \A i \in 1..n - 1 :
               (b[i] < date /\ date < b[i + 1])
                   => ret = LabelFor(call.mapping, b[i])

SameDifficultyData(a, b) ==
    /\ a.ds = b.ds
    /\ a.charts = b.charts
    /\ a.basic_info.bpm = b.basic_info.bpm

\* C13: after pass 2 of intl_convert.py, an entry that is no special case and
\* whose (title, variant) is in the cache has the cached ds, charts and BPM
\* when the cached version label is older than the two newest labels, and
\* its freshly parsed ds, charts and BPM when the cached label is one of them.
C13_CachePrecedence ==
    At("intl", "origin") =>
        \A i \in DOMAIN output_data :
            LET fresh == before_pass[i]
                key == KeyOf(fresh)
            IN  (~SkipSpecial(fresh) /\ HasKey(origin_music_data, key)) =>
                    LET cached == LastWithKey(origin_music_data, key)
                    IN  IF cached.basic_info.from \notin NewestVersions
                        THEN SameDifficultyData(output_data[i], cached)
                        ELSE SameDifficultyData(output_data[i], fresh)

(***************************************************************************)
(* C14.                                                                    *)
(***************************************************************************)
\* The cached entries the synthesized catalog keeps, as they were cached.
KeptCached == SelectSeq(origin_music_data, ReleasedAfterFold)

SameChartData(a, b) ==
    /\ a.level = b.level
    /\ a.ds = b.ds
    /\ a.charts = b.charts
    /\ a.comment = b.comment

\* C14: in the synthesized catalog a cached SD or DX entry keeps its level,
\* ds, charts and comment, also when the international catalog has a
\* special-event entry of the same title.
C14_FoldByTitleAndVariant ==
    pc = "done" =>
        /\ Len(intl_file) = Len(KeptCached)
        /\ \A k \in DOMAIN intl_file :
               KeptCached[k].type # "UTAGE"
                   => SameChartData(intl_file[k], KeptCached[k])

(***************************************************************************)
(* C15.                                                                    *)
(***************************************************************************)
DualForm(entry) ==
    /\ Len(entry.ds) = 2 /\ entry.ds[1] = entry.ds[2]
    /\ Len(entry.level) = 2
    /\ Len(entry.charts) = 2

SingleForm(entry) == Len(entry.charts) = 1

\* C15: for every record with lev_utage, whatever left-side and right-side
\* fields it has, process_utage_song of intl_convert.py returns an entry, in
\* the dual form or in the single form and not in both.
C15_UtageTotal ==
    pc = "returned" =>
        /\ ~IsRaise(ret)
        /\ DualForm(ret) # SingleForm(ret)

====
